---- MODULE Spec2Model ----
(***************************************************************************)
(* Task / swim-lane store of the Kanban board (TaskProvider) and the UI    *)
(* handlers that drive it.                                                 *)
(*                                                                         *)
(* Task identifiers (uuid v4) are modelled as the integers 1, 2, ... in    *)
(* order of generation; 0 is an identifier that was never generated.       *)
(* Timestamps (new Date().toISOString()) are modelled as the value of a    *)
(* clock `now`.  Handlers run in separate user events (click, submit,      *)
(* drop), more than a clock tick apart: the clock has advanced whenever    *)
(* the next handler reads it.                                              *)
(*                                                                         *)
(* localStorage is modelled as its two entries; a provider mounts over them *)
(* at the start and whenever the page is loaded again.  The first start    *)
(* finds empty storage or the entries an earlier session wrote.            *)
(***************************************************************************)
EXTENDS Integers, Sequences, FiniteSets, TLC

(* ------------------------------ bounds --------------------------------- *)
MaxTasks == 2
MaxNewLanes == 1
MaxOps == 3

(* ------------------------- program constants --------------------------- *)
DEFAULT_SWIMLANES ==
  << [id |-> "todo",        name |-> "To-do"],
     [id |-> "planning",    name |-> "Planning"],
     [id |-> "in-progress", name |-> "In-progress"],
     [id |-> "testing",     name |-> "Testing"],
     [id |-> "done",        name |-> "Done"] >>

(* ------------------- JavaScript object / array helpers ------------------ *)
\* obj[k] || d
Get(f, k, d) == IF k \in DOMAIN f THEN f[k] ELSE d

\* { ...obj, [k]: v }
Put(f, k, v) == [x \in (DOMAIN f) \cup {k} |-> IF x = k THEN v ELSE f[x]]

\* const o = { ...obj }; delete o[k]
Del(f, k) == [x \in (DOMAIN f) \ {k} |-> f[x]]

\* arr.filter(x => x !== id)
Without(seq, id) == SelectSeq(seq, LAMBDA x : x # id)

Range(seq) == {seq[i] : i \in 1..Len(seq)}

\* Array.from(new Set(arr)): first occurrences, in order
RECURSIVE Unique(_)
Unique(seq) ==
  IF seq = <<>> THEN <<>>
  ELSE LET init == Unique(SubSeq(seq, 1, Len(seq) - 1))
           x    == seq[Len(seq)]
       IN IF x \in Range(init) THEN init ELSE Append(init, x)

\* number of occurrences of x in seq
Count(seq, x) == Cardinality({i \in 1..Len(seq) : seq[i] = x})

\* swimLanes.map(lane => lane.id)
LaneIds(lanes) == [i \in 1..Len(lanes) |-> lanes[i].id]

\* arrayMove(array, from, to) of @dnd-kit/sortable (1-based positions)
arrayMove(arr, from, to) ==
  LET rest == [i \in 1..(Len(arr) - 1) |-> IF i < from THEN arr[i] ELSE arr[i + 1]]
  IN [i \in 1..Len(arr) |->
        IF i < to THEN rest[i] ELSE IF i = to THEN arr[from] ELSE rest[i - 1]]

\* { ...task, ...taskData }
Merge(rec, upd) == [f \in (DOMAIN rec) \cup (DOMAIN upd) |->
                      IF f \in DOMAIN upd THEN upd[f] ELSE rec[f]]

(* --------------------------- store operations -------------------------- *)
\* A store value s is [tasks, tasksByStatus, swimLanes].  Operations that
\* read the render closure take it as cl; the state updaters act on s.

Store(t, b, l) == [tasks |-> t, tasksByStatus |-> b, swimLanes |-> l]

\* useEffect(..., [swimLanes]): every lane gets an index entry
EnsureLaneEntries(s) ==
  LET ids == Range(LaneIds(s.swimLanes)) IN
  Store(s.tasks,
        [k \in (DOMAIN s.tasksByStatus) \cup ids |-> Get(s.tasksByStatus, k, <<>>)],
        s.swimLanes)

\* { id, ...taskData, createdAt: now, updatedAt: now }: the record addTask returns
NewTask(taskData, id, t) ==
  Merge([id |-> id], Merge(taskData, [createdAt |-> t, updatedAt |-> t]))

\* variant: the identifier is put in front of the lane's sequence
addTask_Prepends(s, taskData, id, t) ==
  LET newTask == NewTask(taskData, id, t)
      statusTasks == Get(s.tasksByStatus, newTask.status, <<>>)
  IN Store(Put(s.tasks, id, newTask),
           Put(s.tasksByStatus, newTask.status, <<id>> \o statusTasks),
           s.swimLanes)

addTask(s, taskData, id, t) ==
  LET newTask == NewTask(taskData, id, t)
      statusTasks == Get(s.tasksByStatus, newTask.status, <<>>)
  IN Store(Put(s.tasks, id, newTask),
           Put(s.tasksByStatus, newTask.status, Append(statusTasks, id)),
           s.swimLanes)

\* variant: the update also re-files the identifier under the new status
updateTask_SyncsIndex(s, id, taskData, t) ==
  IF id \notin DOMAIN s.tasks THEN s
  ELSE LET task == s.tasks[id]
           updatedTask == Merge(Merge(task, taskData), [updatedAt |-> t])
           b == IF "status" \in DOMAIN taskData /\ taskData.status # task.status
                THEN Put(Put(s.tasksByStatus, task.status,
                             Without(Get(s.tasksByStatus, task.status, <<>>), id)),
                         taskData.status,
                         Append(Get(s.tasksByStatus, taskData.status, <<>>), id))
                ELSE s.tasksByStatus
       IN Store(Put(s.tasks, id, updatedTask), b, s.swimLanes)

updateTask(s, id, taskData, t) ==
  IF id \notin DOMAIN s.tasks THEN s
  ELSE LET updatedTask == Merge(Merge(s.tasks[id], taskData), [updatedAt |-> t])
       IN Store(Put(s.tasks, id, updatedTask), s.tasksByStatus, s.swimLanes)

\* variant: the record is removed but the index is left alone
deleteTask_KeepsIndex(cl, s, id) ==
  LET status == IF id \in DOMAIN cl.tasks THEN cl.tasks[id].status ELSE "" IN
  IF status = "" THEN s
  ELSE Store(Del(s.tasks, id), s.tasksByStatus, s.swimLanes)

\* variant: the identifiers after the removed one are lost too
deleteTask_Truncates(cl, s, id) ==
  LET status == IF id \in DOMAIN cl.tasks THEN cl.tasks[id].status ELSE "" IN
  IF status = "" THEN s
  ELSE LET statusTasks == Get(s.tasksByStatus, status, <<>>)
           keep == {i \in 1..Len(statusTasks) : \A j \in 1..i : statusTasks[j] # id}
       IN Store(Del(s.tasks, id),
                Put(s.tasksByStatus, status, [i \in keep |-> statusTasks[i]]),
                s.swimLanes)

deleteTask(cl, s, id) ==
  LET status == IF id \in DOMAIN cl.tasks THEN cl.tasks[id].status ELSE "" IN
  IF status = "" THEN s
  ELSE Store(Del(s.tasks, id),
             Put(s.tasksByStatus, status,
                 Without(Get(s.tasksByStatus, status, <<>>), id)),
             s.swimLanes)

\* variant: the new lane's sequence is not de-duplicated
moveTask_NoDedupe(s, taskId, newStatus, t) ==
  IF taskId \notin DOMAIN s.tasks \/ s.tasks[taskId].status = newStatus THEN s
  ELSE LET task == s.tasks[taskId]
           oldStatus == task.status
           oldStatusTasks == Without(Get(s.tasksByStatus, oldStatus, <<>>), taskId)
           newStatusTasks == Append(Get(s.tasksByStatus, newStatus, <<>>), taskId)
       IN Store(Put(s.tasks, taskId,
                    Merge(task, [status |-> newStatus, updatedAt |-> t])),
                Put(Put(s.tasksByStatus, oldStatus, oldStatusTasks),
                    newStatus, newStatusTasks),
                s.swimLanes)

\* variant: no early return when the task is already in the lane
moveTask_NoSameGuard(s, taskId, newStatus, t) ==
  IF taskId \notin DOMAIN s.tasks THEN s
  ELSE LET task == s.tasks[taskId]
           oldStatus == task.status
           oldStatusTasks == Without(Get(s.tasksByStatus, oldStatus, <<>>), taskId)
           newStatusTasks == Append(Get(s.tasksByStatus, newStatus, <<>>), taskId)
           uniqueNewStatusTasks == Unique(newStatusTasks)
       IN Store(Put(s.tasks, taskId,
                    Merge(task, [status |-> newStatus, updatedAt |-> t])),
                Put(Put(s.tasksByStatus, oldStatus, oldStatusTasks),
                    newStatus, uniqueNewStatusTasks),
                s.swimLanes)

\* variant: an unknown identifier is still filed under the new status
moveTask_FilesUnknown(s, taskId, newStatus, t) ==
  IF taskId \notin DOMAIN s.tasks
  THEN Store(s.tasks,
             Put(s.tasksByStatus, newStatus,
                 Unique(Append(Get(s.tasksByStatus, newStatus, <<>>), taskId))),
             s.swimLanes)
  ELSE IF s.tasks[taskId].status = newStatus THEN s
  ELSE LET task == s.tasks[taskId]
           oldStatus == task.status
           oldStatusTasks == Without(Get(s.tasksByStatus, oldStatus, <<>>), taskId)
           newStatusTasks == Append(Get(s.tasksByStatus, newStatus, <<>>), taskId)
           uniqueNewStatusTasks == Unique(newStatusTasks)
       IN Store(Put(s.tasks, taskId,
                    Merge(task, [status |-> newStatus, updatedAt |-> t])),
                Put(Put(s.tasksByStatus, oldStatus, oldStatusTasks),
                    newStatus, uniqueNewStatusTasks),
                s.swimLanes)

\* variant: the index updater does not de-duplicate the new lane's sequence
moveTaskIndex_NoDedupe(prevTasksByStatus, taskId, oldStatus, newStatus) ==
  LET oldStatusTasks == Without(Get(prevTasksByStatus, oldStatus, <<>>), taskId)
      newStatusTasks == Append(Get(prevTasksByStatus, newStatus, <<>>), taskId)
  IN Put(Put(prevTasksByStatus, oldStatus, oldStatusTasks), newStatus, newStatusTasks)

\* the updater moveTask passes to setTasksByStatus from inside its setTasks updater
moveTaskIndex(prevTasksByStatus, taskId, oldStatus, newStatus) ==
  LET oldStatusTasks == Without(Get(prevTasksByStatus, oldStatus, <<>>), taskId)
      newStatusTasks == Append(Get(prevTasksByStatus, newStatus, <<>>), taskId)
      uniqueNewStatusTasks == Unique(newStatusTasks)
  IN Put(Put(prevTasksByStatus, oldStatus, oldStatusTasks), newStatus, uniqueNewStatusTasks)

moveTask(s, taskId, newStatus, t) ==
  IF taskId \notin DOMAIN s.tasks \/ s.tasks[taskId].status = newStatus THEN s
  ELSE LET task == s.tasks[taskId]
           oldStatus == task.status
       IN Store(Put(s.tasks, taskId,
                    Merge(task, [status |-> newStatus, updatedAt |-> t])),
                moveTaskIndex(s.tasksByStatus, taskId, oldStatus, newStatus),
                s.swimLanes)

\* moveTask under React.StrictMode: the setTasks updater is invoked twice on
\* the same prevTasks and each invocation enqueues the index updater
moveTaskStrict(s, taskId, newStatus, t) ==
  IF taskId \notin DOMAIN s.tasks \/ s.tasks[taskId].status = newStatus THEN s
  ELSE LET once == moveTask(s, taskId, newStatus, t)
       IN Store(once.tasks,
                moveTaskIndex(once.tasksByStatus, taskId, s.tasks[taskId].status, newStatus),
                once.swimLanes)

\* variant: the replacement sequence is de-duplicated first
reorderTasks_Dedupes(s, status, newOrder) ==
  Store(s.tasks, Put(s.tasksByStatus, status, Unique(newOrder)), s.swimLanes)

reorderTasks(s, status, newOrder) ==
  Store(s.tasks, Put(s.tasksByStatus, status, newOrder), s.swimLanes)

addSwimLane(s, name, id) ==
  Store(s.tasks, Put(s.tasksByStatus, id, <<>>),
        Append(s.swimLanes, [id |-> id, name |-> name]))

updateSwimLane(s, id, updates) ==
  Store(s.tasks, s.tasksByStatus,
        [i \in 1..Len(s.swimLanes) |->
           IF s.swimLanes[i].id = id THEN Merge(s.swimLanes[i], updates)
           ELSE s.swimLanes[i]])

\* tasksInLane.forEach(taskId => updateTask(taskId, { status: targetLaneId }))
RECURSIVE UpdateAll(_, _, _, _)
UpdateAll(s, ids, target, t) ==
  IF ids = <<>> THEN s
  ELSE UpdateAll(updateTask(s, Head(ids), [status |-> target], t), Tail(ids), target, t)

\* tasksInLane.forEach(taskId => setTasks(prev => { delete ... }))
RECURSIVE DeleteAll(_, _)
DeleteAll(tasks, ids) ==
  IF ids = <<>> THEN tasks ELSE DeleteAll(Del(tasks, Head(ids)), Tail(ids))

\* variant: the last remaining lane is the target
TargetLane_Last(lanes, id) ==
  LET otherLanes == SelectSeq(lanes, LAMBDA lane : lane.id # id)
  IN otherLanes[Len(otherLanes)].id

\* otherLanes[0].id
TargetLane(lanes, id) ==
  LET otherLanes == SelectSeq(lanes, LAMBDA lane : lane.id # id) IN otherLanes[1].id

\* variant: the deleted lane's index entry is not removed on reassignment
deleteSwimLane_KeepsEntry(cl, s, id, t) ==
  LET tasksInLane == Get(cl.tasksByStatus, id, <<>>)
      otherLanes  == SelectSeq(cl.swimLanes, LAMBDA lane : lane.id # id)
      remaining   == SelectSeq(s.swimLanes, LAMBDA lane : lane.id # id)
  IN IF Len(tasksInLane) > 0
     THEN IF Len(otherLanes) > 0
          THEN LET targetLaneId == TargetLane(cl.swimLanes, id)
                   s1 == UpdateAll(s, tasksInLane, targetLaneId, t)
                   b1 == s1.tasksByStatus
               IN Store(s1.tasks,
                        Put(b1, targetLaneId,
                            Get(b1, targetLaneId, <<>>) \o tasksInLane),
                        remaining)
          ELSE Store(DeleteAll(s.tasks, tasksInLane), Del(s.tasksByStatus, id), remaining)
     ELSE Store(s.tasks, Del(s.tasksByStatus, id), remaining)

\* variant: the tasks of the only lane are kept in the task map
deleteSwimLane_KeepsOrphans(cl, s, id, t) ==
  LET tasksInLane == Get(cl.tasksByStatus, id, <<>>)
      otherLanes  == SelectSeq(cl.swimLanes, LAMBDA lane : lane.id # id)
      remaining   == SelectSeq(s.swimLanes, LAMBDA lane : lane.id # id)
  IN IF Len(tasksInLane) > 0 /\ Len(otherLanes) > 0
     THEN LET targetLaneId == TargetLane(cl.swimLanes, id)
              s1 == UpdateAll(s, tasksInLane, targetLaneId, t)
              b1 == Del(s1.tasksByStatus, id)
          IN Store(s1.tasks,
                   Put(b1, targetLaneId, Get(b1, targetLaneId, <<>>) \o tasksInLane),
                   remaining)
     ELSE Store(s.tasks, Del(s.tasksByStatus, id), remaining)

deleteSwimLane(cl, s, id, t) ==
  LET tasksInLane == Get(cl.tasksByStatus, id, <<>>)
      otherLanes  == SelectSeq(cl.swimLanes, LAMBDA lane : lane.id # id)
      remaining   == SelectSeq(s.swimLanes, LAMBDA lane : lane.id # id)
  IN IF Len(tasksInLane) > 0
     THEN IF Len(otherLanes) > 0
          THEN LET targetLaneId == TargetLane(cl.swimLanes, id)
                   s1 == UpdateAll(s, tasksInLane, targetLaneId, t)
                   b1 == Del(s1.tasksByStatus, id)
               IN Store(s1.tasks,
                        Put(b1, targetLaneId,
                            Get(b1, targetLaneId, <<>>) \o tasksInLane),
                        remaining)
          ELSE Store(DeleteAll(s.tasks, tasksInLane), Del(s.tasksByStatus, id), remaining)
     ELSE Store(s.tasks, Del(s.tasksByStatus, id), remaining)

\* variant: the lanes named by newOrder are kept in their previous order
reorderSwimLanes_Filters(s, newOrder) ==
  Store(s.tasks, s.tasksByStatus,
        SelectSeq(s.swimLanes, LAMBDA lane : lane.id \in Range(newOrder)))

reorderSwimLanes(s, newOrder) ==
  LET known == SelectSeq(newOrder, LAMBDA id : id \in Range(LaneIds(s.swimLanes)))
      laneOf(id) == LET i == CHOOSE j \in 1..Len(s.swimLanes) :
                                 /\ s.swimLanes[j].id = id
                                 /\ \A k \in (j + 1)..Len(s.swimLanes) : s.swimLanes[k].id # id
                    IN s.swimLanes[i]
  IN Store(s.tasks, s.tasksByStatus, [i \in 1..Len(known) |-> laneOf(known[i])])

(* ----------------------------- persistence ----------------------------- *)
\* A localStorage entry is absent (getItem returns null), a text JSON.parse
\* rejects, or the text JSON.stringify produced for a value.  A storage value
\* st is [tasks, lanes]: the entries 'kanban-tasks' and 'kanban-swimlanes'.
Null == [kind |-> "null"]
Malformed == [kind |-> "malformed"]
Json(v) == [kind |-> "json", value |-> v]

\* the JavaScript value undefined, held by the optional date fields of a task
Undefined == "undefined"
OptionalFields == {"actualDeliveryDate", "desiredDate"}

\* JSON.stringify of a task record: properties whose value is undefined are left out
stringifyTask(rec) ==
  [f \in {g \in DOMAIN rec : ~(g \in OptionalFields /\ rec[g] = Undefined)} |-> rec[f]]

\* JSON.stringify({ tasks, tasksByStatus })
stringifyTasks(s) ==
  Json([tasks |-> [k \in DOMAIN s.tasks |-> stringifyTask(s.tasks[k])],
        tasksByStatus |-> s.tasksByStatus])

\* JSON.stringify(swimLanes)
stringifySwimLanes(lanes) == Json(lanes)

\* the effect on [tasks, tasksByStatus]
saveTasksEffect(entry, s) ==
  IF DOMAIN s.tasks # {} \/ DOMAIN s.tasksByStatus # {} THEN stringifyTasks(s) ELSE entry

\* the effect on [swimLanes]
saveSwimLanesEffect(s) == stringifySwimLanes(s.swimLanes)

\* both save effects, run with the store s of the render they follow
SaveEffects(st, s) ==
  [tasks |-> saveTasksEffect(st.tasks, s), lanes |-> saveSwimLanesEffect(s)]

\* the load effect: the values it passes to setSwimLanes and to
\* setTasks / setTasksByStatus (none when the entry is absent or the parse throws)
\* variant: both entries are parsed in one try block, the lanes first
loadEffect_OneTry(st) ==
  [lanes |-> IF st.lanes.kind = "json" THEN <<st.lanes.value>> ELSE <<>>,
   tasks |-> IF st.tasks.kind = "json" /\ st.lanes.kind # "malformed"
             THEN <<st.tasks.value>> ELSE <<>>]

loadEffect(st) ==
  [lanes |-> IF st.lanes.kind = "json" THEN <<st.lanes.value>> ELSE <<>>,
   tasks |-> IF st.tasks.kind = "json" THEN <<st.tasks.value>> ELSE <<>>]

\* Mounting the provider over the storage st.  The first render holds the
\* useState defaults; its effects run once, or twice when strict (the
\* development build: React.StrictMode re-runs the effects of a mounted
\* component before the queued state updates are rendered); the queued updates
\* are then applied in order, and the effects of the following renders run.
Mount(st, strict) ==
  LET first    == Store([x \in {} |-> 0], [x \in {} |-> <<>>], DEFAULT_SWIMLANES)
      q1       == loadEffect(st)
      st1      == SaveEffects(st, first)
      q2       == IF strict THEN loadEffect(st1) ELSE [lanes |-> <<>>, tasks |-> <<>>]
      st2      == IF strict THEN SaveEffects(st1, first) ELSE st1
      setLanes == q1.lanes \o q2.lanes
      setTasks == q1.tasks \o q2.tasks
      lanes    == IF setLanes = <<>> THEN DEFAULT_SWIMLANES ELSE setLanes[Len(setLanes)]
      ensured  == EnsureLaneEntries(first).tasksByStatus
      loaded   == IF setTasks = <<>> THEN [tasks |-> first.tasks, tasksByStatus |-> ensured]
                  ELSE setTasks[Len(setTasks)]
      final    == EnsureLaneEntries(Store(loaded.tasks, loaded.tasksByStatus, lanes))
  IN [store |-> final, storage |-> SaveEffects(st2, final)]

(* ------------------------------- state --------------------------------- *)
VARIABLES
  tasks,               \* TaskMap: task id -> task record
  tasksByStatus,       \* TasksByStatus: lane id -> sequence of task ids
  swimLanes,           \* SwimLane[]
  now,                 \* the clock read by new Date()
  uuids,               \* number of task identifiers generated so far
  laneUuids,           \* number of lane identifiers generated so far
  ops,                 \* number of store operations invoked so far
  deletingLane,        \* SwimLaneManager: lane id chosen for deletion ("" for null)
  isDeleteDialogOpen,  \* SwimLaneManager: the delete confirmation is showing
  storage,             \* localStorage: the entries 'kanban-tasks' and 'kanban-swimlanes'
  last                 \* the last handler run, its arguments, the store before it
                       \* and the value it returned

store == <<tasks, tasksByStatus, swimLanes>>
ui == <<deletingLane, isDeleteDialogOpen>>
vars == <<tasks, tasksByStatus, swimLanes, now, uuids, laneUuids, ops,
          deletingLane, isDeleteDialogOpen, storage, last>>

Cur == Store(tasks, tasksByStatus, swimLanes)

\* identifiers uuidv4() returns for new lanes, in order of generation
LaneUuid(n) == <<"lane-1", "lane-2", "lane-3">>[n]

NoUpd == [x \in {} |-> ""]

Op(name, task, lane, upd, seq) ==
  [op |-> name, task |-> task, lane |-> lane, upd |-> upd, seq |-> seq,
   t |-> now, pre |-> Cur, afterAdd |-> FALSE, addPre |-> Cur, ret |-> NoUpd,
   stored |-> storage, read |-> storage, strict |-> FALSE, oneByOne |-> Cur]

\* the lane lists found persisted at the first start: none, or the list of an
\* earlier session that deleted the three middle lanes and created no task
StartLanes ==
  {DEFAULT_SWIMLANES,
   SelectSeq(DEFAULT_SWIMLANES, LAMBDA lane : lane.id \in {"todo", "done"})}

\* the store an earlier session left: with the default lanes, one task was
\* created in "todo" through the task form and then edited in the form, the
\* status changed to "done"
EditedSession ==
  LET s0 == EnsureLaneEntries(Store([x \in {} |-> 0], [x \in {} |-> <<>>], DEFAULT_SWIMLANES))
      data == [title |-> "ab", description |-> "d", priority |-> 2,
               status |-> "todo", actualDeliveryDate |-> Undefined]
  IN updateTask(addTask(s0, data, 1, -2), 1, [data EXCEPT !.status = "done"], -1)

\* what localStorage holds at the first start
StartStorage ==
  {[tasks |-> Null, lanes |-> Null]} \cup
  {SaveEffects([tasks |-> Null, lanes |-> Null],
               EnsureLaneEntries(Store([x \in {} |-> 0], [x \in {} |-> <<>>], lanes)))
     : lanes \in StartLanes \ {DEFAULT_SWIMLANES}}

\* what localStorage holds at the first start when earlier sessions used the
\* task form as well
StartStorageUI ==
  StartStorage \cup {SaveEffects([tasks |-> Null, lanes |-> Null], EditedSession)}

\* the number of task identifiers the sessions that wrote st generated
StoredTasks(st) ==
  IF st.tasks.kind = "json" THEN Cardinality(DOMAIN st.tasks.value.tasks) ELSE 0

\* the provider after mount over one of the storages
Startup(storages) ==
  /\ \E st \in storages, strict \in BOOLEAN :
       LET m == Mount(st, strict) IN
       /\ tasks = m.store.tasks
       /\ tasksByStatus = m.store.tasksByStatus
       /\ swimLanes = m.store.swimLanes
       /\ storage = m.storage
       /\ uuids = StoredTasks(st)
  /\ now = 0
  /\ laneUuids = 0
  /\ ops = 0
  /\ deletingLane = ""
  /\ isDeleteDialogOpen = FALSE
  /\ last = [op |-> "init", task |-> 0, lane |-> "", upd |-> NoUpd, seq |-> <<>>,
             t |-> 0, pre |-> Store(tasks, tasksByStatus, swimLanes), afterAdd |-> FALSE,
             addPre |-> Store(tasks, tasksByStatus, swimLanes), ret |-> NoUpd,
             stored |-> storage, read |-> storage, strict |-> FALSE,
             oneByOne |-> Store(tasks, tasksByStatus, swimLanes)]

Init == Startup(StartStorage)

InitUI == Startup(StartStorageUI)

\* commit the store produced by a handler: the render that follows runs the
\* save effects
Commit(s) ==
  /\ tasks' = s.tasks
  /\ tasksByStatus' = s.tasksByStatus
  /\ swimLanes' = s.swimLanes
  /\ storage' = SaveEffects(storage, s)

\* commit after a handler that set swimLanes: the [swimLanes] effect runs
CommitLanes(s) == Commit(EnsureLaneEntries(s))

\* a handler runs in a later event than the previous one
Clock == now' = now + 1

\* one more store operation is invoked
Step == ops < MaxOps /\ ops' = ops + 1 /\ Clock

(* ----------------------- inputs of the store API ----------------------- *)
\* the lanes callers pick: the first and the last of the current list
LaneChoices ==
  IF swimLanes = <<>> THEN {} ELSE {swimLanes[1].id, swimLanes[Len(swimLanes)].id}
TaskIdInputs == 0..uuids
StatusInputs == LaneChoices \cup {"ghost", ""}
LaneInputs == LaneChoices \cup {"ghost"}
\* Partial<Task> values: a title, a status, an identifier
UpdateInputs ==
  {[title |-> "b"], [id |-> 0]} \cup {[status |-> x] : x \in LaneInputs}
\* Partial<SwimLane> values: a name, an identifier
LaneUpdateInputs == {[name |-> "Renamed"], [id |-> "ghost"]}
\* replacement sequences for a lane whose sequence is cur: a permutation, one
\* with duplicates, one with a never generated identifier, one that loses an
\* identifier, the empty one, and (once a task identifier has been generated)
\* one naming the first task generated
OrderInputs(cur) ==
  {[i \in 1..Len(cur) |-> cur[Len(cur) + 1 - i]],
   cur \o cur,
   Append(cur, 0),
   SubSeq(cur, 2, Len(cur)),
   <<>>}
    \cup (IF uuids >= 1 THEN {<<1, 0>>} ELSE {})
\* lane orders: the two a drag between the ends yields, one that keeps only
\* the first lane, one that names the last lane twice, one with an identifier
\* that is not a lane
LaneOrderInputs ==
  LET ids == LaneIds(swimLanes)
      n == Len(ids) IN
  (IF n = 0 THEN {}
   ELSE {arrayMove(ids, 1, n), arrayMove(ids, n, 1), <<ids[1]>>, <<ids[n], ids[n]>>})
    \cup {<<"ghost">> \o ids}

(* ------------------------- store API (Spec) ---------------------------- *)
AddTask ==
  /\ Step
  /\ uuids < MaxTasks
  /\ \E status \in StatusInputs :
       LET id == uuids + 1
           data == [title |-> "a", status |-> status, actualDeliveryDate |-> Undefined] IN
       /\ Commit(addTask(Cur, data, id, now))
       /\ last' = [Op("addTask", id, status, data, <<>>) EXCEPT
                     !.ret = NewTask(data, id, now)]
  /\ uuids' = uuids + 1
  /\ UNCHANGED <<laneUuids, ui>>

UpdateTask ==
  /\ Step
  /\ \E id \in TaskIdInputs, upd \in UpdateInputs :
       /\ Commit(updateTask(Cur, id, upd, now))
       /\ last' = Op("updateTask", id, "", upd, <<>>)
  /\ UNCHANGED <<uuids, laneUuids, ui>>

DeleteTask ==
  /\ Step
  /\ \E id \in TaskIdInputs :
       /\ Commit(deleteTask(Cur, Cur, id))
       /\ last' = [Op("deleteTask", id, "", NoUpd, <<>>) EXCEPT
                     !.afterAdd = (last.op = "addTask" /\ last.task = id),
                     !.addPre = last.pre]
  /\ UNCHANGED <<uuids, laneUuids, ui>>

MoveTask ==
  /\ Step
  /\ \E id \in TaskIdInputs, status \in LaneInputs, strict \in BOOLEAN :
       /\ Commit(IF strict THEN moveTaskStrict(Cur, id, status, now)
                 ELSE moveTask(Cur, id, status, now))
       /\ last' = [Op("moveTask", id, status, NoUpd, <<>>) EXCEPT !.strict = strict]
  /\ UNCHANGED <<uuids, laneUuids, ui>>

ReorderTasks ==
  /\ Step
  /\ \E status \in LaneInputs :
       \E newOrder \in OrderInputs(Get(tasksByStatus, status, <<>>)) :
       /\ Commit(reorderTasks(Cur, status, newOrder))
       /\ last' = Op("reorderTasks", 0, status, NoUpd, newOrder)
  /\ UNCHANGED <<uuids, laneUuids, ui>>

AddSwimLane ==
  /\ Step
  /\ laneUuids < MaxNewLanes
  /\ LET id == LaneUuid(laneUuids + 1) IN
       /\ CommitLanes(addSwimLane(Cur, "New", id))
       /\ last' = Op("addSwimLane", 0, id, NoUpd, <<>>)
  /\ laneUuids' = laneUuids + 1
  /\ UNCHANGED <<uuids, ui>>

UpdateSwimLane ==
  /\ Step
  /\ \E id \in LaneInputs, updates \in LaneUpdateInputs :
       /\ CommitLanes(updateSwimLane(Cur, id, updates))
       /\ last' = Op("updateSwimLane", 0, id, updates, <<>>)
  /\ UNCHANGED <<uuids, laneUuids, ui>>

DeleteSwimLane ==
  /\ Step
  /\ \E id \in LaneInputs :
       /\ CommitLanes(deleteSwimLane(Cur, Cur, id, now))
       /\ last' = Op("deleteSwimLane", 0, id, NoUpd, <<>>)
  /\ UNCHANGED <<uuids, laneUuids, ui>>

ReorderSwimLanes ==
  /\ Step
  /\ \E newOrder \in LaneOrderInputs :
       /\ CommitLanes(reorderSwimLanes(Cur, newOrder))
       /\ last' = Op("reorderSwimLanes", 0, "", NoUpd, newOrder)
  /\ UNCHANGED <<uuids, laneUuids, ui>>

\* what localStorage holds at the next start: the entries as written, or one
\* of them damaged outside the application
StartupStorage(st) ==
  {st, [st EXCEPT !.tasks = Malformed], [st EXCEPT !.lanes = Malformed]}

\* the page is loaded again: a new provider mounts over localStorage
Reload ==
  /\ Step
  /\ \E st \in StartupStorage(storage), strict \in BOOLEAN :
       LET m == Mount(st, strict) IN
       /\ tasks' = m.store.tasks
       /\ tasksByStatus' = m.store.tasksByStatus
       /\ swimLanes' = m.store.swimLanes
       /\ storage' = m.storage
       /\ last' = [Op("reload", 0, "", NoUpd, <<>>) EXCEPT !.read = st, !.strict = strict]
  /\ deletingLane' = ""
  /\ isDeleteDialogOpen' = FALSE
  /\ UNCHANGED <<uuids, laneUuids>>

\* a call of a store operation with its arguments
Call(name, task, lane, upd) == [op |-> name, task |-> task, lane |-> lane, upd |-> upd]

\* the call c made from the render whose closure holds cl, its state updaters
\* running on s
Apply(c, cl, s, t) ==
  CASE c.op = "addTask" -> addTask(s, c.upd, c.task, t)
    [] c.op = "updateTask" -> updateTask(s, c.task, c.upd, t)
    [] c.op = "deleteTask" -> deleteTask(cl, s, c.task)
    [] c.op = "deleteSwimLane" -> deleteSwimLane(cl, s, c.lane, t)

\* pairs of calls made by one handler: addTask then deleteTask of the returned
\* identifier, addTask to a lane then deleteSwimLane of that lane, updateTask
\* then deleteSwimLane of the task's lane
BatchInputs ==
  LET id == uuids + 1 IN
  (IF uuids < MaxTasks
   THEN UNION {
          LET add == Call("addTask", id, "",
                          [title |-> "a", status |-> lane, actualDeliveryDate |-> Undefined]) IN
          {<<add, Call("deleteTask", id, "", NoUpd)>>,
           <<add, Call("deleteSwimLane", 0, lane, NoUpd)>>} : lane \in LaneChoices}
   ELSE {})
  \cup
  {<<Call("updateTask", T, "", upd), Call("deleteSwimLane", 0, tasks[T].status, NoUpd)>> :
     T \in DOMAIN tasks, upd \in {[title |-> "b"]} \cup {[status |-> x] : x \in LaneChoices}}

\* two store operations called by one event handler: both read the closure of
\* the same render, and the state updaters they enqueue run in order
Batch ==
  /\ Step
  /\ \E calls \in BatchInputs :
       LET s1 == Apply(calls[1], Cur, Cur, now)
           s2 == Apply(calls[2], Cur, s1, now)
           r1 == EnsureLaneEntries(s1)
           r2 == EnsureLaneEntries(Apply(calls[2], r1, r1, now)) IN
       /\ CommitLanes(s2)
       /\ last' = [Op("batch", calls[1].task, calls[2].lane, calls[1].upd, <<>>) EXCEPT
                     !.oneByOne = r2, !.ret = calls[2]]
       /\ uuids' = IF calls[1].op = "addTask" THEN uuids + 1 ELSE uuids
  /\ UNCHANGED <<laneUuids, ui>>

Next ==
  \/ AddTask
  \/ UpdateTask
  \/ DeleteTask
  \/ MoveTask
  \/ ReorderTasks
  \/ AddSwimLane
  \/ UpdateSwimLane
  \/ DeleteSwimLane
  \/ ReorderSwimLanes
  \/ Reload
  \/ Batch

Spec == Init /\ [][Next]_vars

(* --------------------------- UI handlers (SpecUI) ---------------------- *)
\* arr.indexOf(x), 1-based; 0 when absent
IndexOf(seq, x) ==
  IF x \in Range(seq) THEN CHOOSE i \in 1..Len(seq) :
                              seq[i] = x /\ \A j \in 1..(i - 1) : seq[j] # x
  ELSE 0

NoOver == [kind |-> "none", lane |-> "", task |-> 0]
OverLane(l) == [kind |-> "lane", lane |-> l, task |-> 0]
OverTask(id) == [kind |-> "task", lane |-> "", task |-> id]

\* KanbanBoard.handleDragEnd
handleDragEnd(cl, s, activeId, over, t) ==
  IF over.kind = "none" \/ activeId \notin DOMAIN cl.tasks THEN s
  ELSE LET currentStatus == cl.tasks[activeId].status
           isOverAColumn == over.kind = "lane" /\ over.lane \in Range(LaneIds(cl.swimLanes))
           isOverATask == over.kind = "task" /\ over.task \in DOMAIN cl.tasks
           finalTargetLaneId ==
             IF isOverAColumn THEN over.lane
             ELSE IF isOverATask THEN cl.tasks[over.task].status ELSE ""
       IN IF over.kind = "task" /\ over.task = activeId THEN s
          ELSE IF finalTargetLaneId = "" THEN s
          ELSE IF finalTargetLaneId # currentStatus
               THEN moveTask(s, activeId, finalTargetLaneId, t)
          ELSE IF isOverATask /\ currentStatus \in DOMAIN cl.tasksByStatus
               THEN LET taskList == cl.tasksByStatus[currentStatus]
                        activeIndex == IndexOf(taskList, activeId)
                        overTaskIndex == IndexOf(taskList, over.task)
                    IN IF activeIndex # 0 /\ overTaskIndex # 0
                       THEN reorderTasks(s, currentStatus,
                                         arrayMove(taskList, activeIndex, overTaskIndex))
                       ELSE s
          ELSE s

\* SwimLaneManager.handleDragEnd
laneDragEnd(s, active, over) ==
  LET ids == LaneIds(s.swimLanes)
      oldIndex == IndexOf(ids, active)
      newIndex == IndexOf(ids, over)
  IN IF active # over /\ oldIndex # 0 /\ newIndex # 0
     THEN reorderSwimLanes(s, arrayMove(ids, oldIndex, newIndex))
     ELSE s

\* the task cards the board renders: the index entries of the current lanes
RenderedCards ==
  UNION {Range(Get(tasksByStatus, swimLanes[i].id, <<>>)) : i \in 1..Len(swimLanes)}

\* the confirmation dialog is modal: no other handler runs while it shows
Idle == ~isDeleteDialogOpen

\* the number of characters of the texts typed into the form
TextLength(text) ==
  CASE text = "" -> 0
    [] text \in {"a", "b", "d"} -> 1
    [] text \in {"ab", "cd"} -> 2

\* variant: the title is not checked
taskFormSchema_AnyTitle(values) ==
  /\ TextLength(values.description) >= 1
  /\ values.priority >= 1 /\ values.priority <= 3

\* zodResolver(taskFormSchema): the submit handler runs only for values that parse
taskFormSchema(values) ==
  /\ TextLength(values.title) >= 2
  /\ TextLength(values.description) >= 1
  /\ values.priority >= 1 /\ values.priority <= 3

\* what is typed into the form: values that parse, a title of one character,
\* an empty description
FormInputs(title, description) ==
  {[title |-> title, description |-> description, priority |-> 2],
   [title |-> "cd", description |-> description, priority |-> 2],
   [title |-> "a", description |-> description, priority |-> 2],
   [title |-> title, description |-> "", priority |-> 2]}

\* form.handleSubmit(onSubmit) without existingTask
FormCreate ==
  /\ Idle /\ Step
  /\ uuids < MaxTasks
  /\ \E status \in (IF swimLanes = <<>> THEN {""} ELSE LaneChoices),
        values \in FormInputs("ab", "d") \ {[title |-> "cd", description |-> "d", priority |-> 2]} :
       LET id == uuids + 1
           data == Merge(values, [status |-> status, actualDeliveryDate |-> Undefined]) IN
       IF taskFormSchema(values)
       THEN /\ Commit(addTask(Cur, data, id, now))
            /\ last' = [Op("formCreate", id, status, data, <<>>) EXCEPT
                          !.ret = NewTask(data, id, now)]
            /\ uuids' = uuids + 1
       ELSE /\ last' = Op("formCreate", 0, status, data, <<>>)
            /\ UNCHANGED <<store, storage, uuids>>
  /\ UNCHANGED <<laneUuids, ui>>

\* form.handleSubmit(onSubmit) with existingTask: the form's fields, status included
FormEdit ==
  /\ Idle /\ Step
  /\ \E id \in DOMAIN tasks :
       \E values \in FormInputs(tasks[id].title, tasks[id].description),
          status \in LaneChoices \cup {tasks[id].status} :
         LET data == Merge(values, [status |-> status, actualDeliveryDate |-> Undefined]) IN
         /\ last' = Op("formEdit", id, status, data, <<>>)
         /\ IF taskFormSchema(values)
            THEN Commit(updateTask(Cur, id, data, now))
            ELSE UNCHANGED <<store, storage>>
  /\ UNCHANGED <<uuids, laneUuids, ui>>

\* TasksPage.confirmDelete
ConfirmDelete ==
  /\ Idle /\ Step
  /\ \E id \in DOMAIN tasks :
       /\ Commit(deleteTask(Cur, Cur, id))
       /\ last' = Op("confirmDelete", id, "", NoUpd, <<>>)
  /\ UNCHANGED <<uuids, laneUuids, ui>>

BoardDragEnd ==
  /\ Idle /\ Step
  /\ \E activeId \in RenderedCards :
       \E over \in {NoOver} \cup {OverLane(l) : l \in LaneChoices}
                     \cup {OverTask(id) : id \in RenderedCards} :
         /\ Commit(handleDragEnd(Cur, Cur, activeId, over, now))
         /\ last' = Op("boardDragEnd", activeId, over.lane, NoUpd, <<over.task>>)
  /\ UNCHANGED <<uuids, laneUuids, ui>>

\* variant: the delete button is never disabled
OpenDeleteDialog_NoGuard ==
  /\ Idle
  /\ \E lane \in LaneChoices :
       /\ deletingLane' = lane
       /\ isDeleteDialogOpen' = TRUE
  /\ UNCHANGED <<store, storage, now, uuids, laneUuids, ops, last>>

\* variant: the delete button is disabled only when no lane is left
OpenDeleteDialog_GuardsEmpty ==
  /\ Idle
  /\ Len(swimLanes) # 0
  /\ \E lane \in LaneChoices :
       /\ deletingLane' = lane
       /\ isDeleteDialogOpen' = TRUE
  /\ UNCHANGED <<store, storage, now, uuids, laneUuids, ops, last>>

\* the delete button of a lane row; disabled={isLastLane}
OpenDeleteDialog ==
  /\ Idle
  /\ Len(swimLanes) # 1
  /\ \E lane \in LaneChoices :
       /\ deletingLane' = lane
       /\ isDeleteDialogOpen' = TRUE
  /\ UNCHANGED <<store, storage, now, uuids, laneUuids, ops, last>>

\* AlertDialogCancel
CancelDelete ==
  /\ isDeleteDialogOpen
  /\ isDeleteDialogOpen' = FALSE
  /\ UNCHANGED <<store, storage, now, uuids, laneUuids, ops, deletingLane, last>>

\* SwimLaneManager.handleDeleteLane
HandleDeleteLane ==
  /\ isDeleteDialogOpen /\ Step
  /\ deletingLane # ""
  /\ CommitLanes(deleteSwimLane(Cur, Cur, deletingLane, now))
  /\ last' = Op("handleDeleteLane", 0, deletingLane, NoUpd, <<>>)
  /\ deletingLane' = ""
  /\ isDeleteDialogOpen' = FALSE
  /\ UNCHANGED <<uuids, laneUuids>>

\* SwimLaneManager.handleAddLane
HandleAddLane ==
  /\ Idle /\ Step
  /\ laneUuids < MaxNewLanes
  /\ LET id == LaneUuid(laneUuids + 1) IN
       /\ CommitLanes(addSwimLane(Cur, "New", id))
       /\ last' = Op("handleAddLane", 0, id, NoUpd, <<>>)
  /\ laneUuids' = laneUuids + 1
  /\ UNCHANGED <<uuids, ui>>

\* SwimLaneManager.handleEditLane
HandleEditLane ==
  /\ Idle /\ Step
  /\ \E id \in LaneChoices :
       /\ CommitLanes(updateSwimLane(Cur, id, [name |-> "Renamed"]))
       /\ last' = Op("handleEditLane", 0, id, [name |-> "Renamed"], <<>>)
  /\ UNCHANGED <<uuids, laneUuids, ui>>

LaneDragEnd ==
  /\ Idle /\ Step
  /\ \E active \in LaneChoices, over \in LaneChoices :
       LET s == laneDragEnd(Cur, active, over) IN
       /\ IF s = Cur THEN Commit(s) ELSE CommitLanes(s)
       /\ last' = Op("laneDragEnd", 0, active, NoUpd, <<over>>)
  /\ UNCHANGED <<uuids, laneUuids, ui>>

NextUI ==
  \/ FormCreate
  \/ FormEdit
  \/ ConfirmDelete
  \/ BoardDragEnd
  \/ OpenDeleteDialog
  \/ CancelDelete
  \/ HandleDeleteLane
  \/ HandleAddLane
  \/ HandleEditLane
  \/ LaneDragEnd
  \/ Reload

SpecUI == InitUI /\ [][NextUI]_vars

(* ============================== properties ============================= *)
LaneIdSet == Range(LaneIds(swimLanes))

\* the first lane of a list whose identifier is not l
FirstOtherLane(lanes, l) ==
  lanes[CHOOSE i \in 1..Len(lanes) :
          lanes[i].id # l /\ \A j \in 1..(i - 1) : lanes[j].id = l].id

HasOtherLane(lanes, l) == \E i \in 1..Len(lanes) : lanes[i].id # l

\* id is filed exactly once under status and under no other key of index b
FiledOnceUnder(b, id, status) ==
  /\ status \in DOMAIN b
  /\ Count(b[status], id) = 1
  /\ \A k \in (DOMAIN b) \ {status} : Count(b[k], id) = 0

\* the elements of seq before the first occurrence of x
Before(seq, x) == {seq[i] : i \in 1..(IndexOf(seq, x) - 1)}

\* C1: every task's identifier is exactly once in tasksByStatus[T.status] and
\* in no other lane's sequence, in every state the UI handlers can reach.
C1_IndexMatchesStatus ==
  \A id \in DOMAIN tasks : FiledOnceUnder(tasksByStatus, id, tasks[id].status)

\* C2: every task's status is the identifier of a lane in the lane list.
C2_StatusIsLane ==
  \A id \in DOMAIN tasks : tasks[id].status \in LaneIdSet

\* deleteSwimLane(L) ran, L held at least one identifier and another lane existed
DeletedLaneWithTasks ==
  /\ last.op = "deleteSwimLane"
  /\ last.lane \in DOMAIN last.pre.tasksByStatus
  /\ Len(last.pre.tasksByStatus[last.lane]) >= 1
  /\ HasOtherLane(last.pre.swimLanes, last.lane)

\* C3: after deleteSwimLane(L) with N >= 1 identifiers in L and another lane
\* present, all N identifiers are in the sequence of the first lane other than
\* L, and tasksByStatus has no entry for L.
C3_DeleteLaneMergesIndex ==
  DeletedLaneWithTasks =>
    LET target == FirstOtherLane(last.pre.swimLanes, last.lane) IN
    /\ target \in DOMAIN tasksByStatus
    /\ Range(last.pre.tasksByStatus[last.lane]) \subseteq Range(tasksByStatus[target])
    /\ last.lane \notin DOMAIN tasksByStatus

C3_Witness ==
  /\ DeletedLaneWithTasks
  /\ Len(last.pre.tasksByStatus[last.lane]) >= 2

\* C4: after deleteSwimLane(L) with tasks in L and another lane present, every
\* task that was in L's sequence has as status the first lane, in the lane
\* list's order at the time of the call, that is not L.
C4_DeleteLaneReassignsStatus ==
  DeletedLaneWithTasks =>
    \A id \in Range(last.pre.tasksByStatus[last.lane]) \cap DOMAIN tasks :
      tasks[id].status = FirstOtherLane(last.pre.swimLanes, last.lane)

\* the lane list had been reordered: the target is the lane that was created last
C4_Witness ==
  /\ DeletedLaneWithTasks
  /\ FirstOtherLane(last.pre.swimLanes, last.lane) = "done"
  /\ Range(last.pre.tasksByStatus[last.lane]) \cap DOMAIN tasks # {}

\* C5: deleting a lane through the lane manager removes no task from the task
\* map, and every task listed in the deleted lane's sequence ends up with the
\* status of a remaining lane and filed in that lane's sequence.
C5_LaneDeleteKeepsTasks ==
  last.op = "handleDeleteLane" =>
    /\ DOMAIN tasks = DOMAIN last.pre.tasks
    /\ \A id \in Range(Get(last.pre.tasksByStatus, last.lane, <<>>)) \cap DOMAIN tasks :
         /\ tasks[id].status # last.lane
         /\ tasks[id].status \in LaneIdSet
         /\ id \in Range(Get(tasksByStatus, tasks[id].status, <<>>))

C5_Witness ==
  /\ last.op = "handleDeleteLane"
  /\ Range(Get(last.pre.tasksByStatus, last.lane, <<>>)) \cap DOMAIN tasks # {}

\* deleteTask(id) ran right after the addTask that returned id
DeletedRightAfterAdd == last.op = "deleteTask" /\ last.afterAdd

\* C6 as stated: for every pre-state and every target status, addTask followed
\* by deleteTask of the returned identifier restores the task map and the index.
C6_AddDeleteRestores ==
  DeletedRightAfterAdd =>
    /\ tasks = last.addPre.tasks
    /\ tasksByStatus = last.addPre.tasksByStatus

\* C6 amended: addTask followed by deleteTask of the returned identifier
\* restores the task map and the index when the target status is a non-empty
\* string that already has an entry in tasksByStatus.
C6_AddDeleteRestoresExistingEntry ==
  (/\ DeletedRightAfterAdd
   /\ last.pre.tasks[last.task].status # ""
   /\ last.pre.tasks[last.task].status \in DOMAIN last.addPre.tasksByStatus)
  => /\ tasks = last.addPre.tasks
     /\ tasksByStatus = last.addPre.tasksByStatus

C6_Witness ==
  /\ DeletedRightAfterAdd
  /\ last.pre.tasks[last.task].status # ""
  /\ last.pre.tasks[last.task].status \in DOMAIN last.addPre.tasksByStatus
  /\ last.addPre.tasksByStatus[last.pre.tasks[last.task].status] # <<>>

\* moveTask(T, L) ran for an existing task whose status was not L
MovedToOtherLane ==
  /\ last.op = "moveTask"
  /\ last.task \in DOMAIN last.pre.tasks
  /\ last.pre.tasks[last.task].status # last.lane

\* what moveTask(T, L) does besides placing T in L's sequence
MoveEffects ==
  LET T == last.task
      L == last.lane
      S == last.pre.tasks[T].status IN
  /\ tasks[T].status = L
  /\ tasks[T].updatedAt = last.t
  /\ S \in DOMAIN tasksByStatus /\ L \in DOMAIN tasksByStatus
  /\ Count(tasksByStatus[S], T) = 0
  /\ Count(tasksByStatus[L], T) = 1
  /\ (/\ S = "todo" /\ L = "done"
      /\ Get(last.pre.tasksByStatus, "todo", <<>>) = <<T>>
      /\ Get(last.pre.tasksByStatus, "done", <<>>) = <<>>)
     => (tasksByStatus["todo"] = <<>> /\ tasksByStatus["done"] = <<T>>)

\* C7 as stated: moveTask(T, L) with T.status = S # L sets status and
\* updatedAt, removes T from tasksByStatus[S] and leaves T exactly once, as the
\* last element, in tasksByStatus[L].
C7_MoveAppendsLast ==
  MovedToOtherLane =>
    /\ MoveEffects
    /\ tasksByStatus[last.lane][Len(tasksByStatus[last.lane])] = last.task

\* C7 amended: as stated, except that T is the last element of tasksByStatus[L]
\* only when it was not in L's sequence before; when it was, it stays where its
\* first occurrence was.
C7_MoveDedupes ==
  MovedToOtherLane =>
    LET T == last.task
        preL == Get(last.pre.tasksByStatus, last.lane, <<>>)
        newL == tasksByStatus[last.lane] IN
    /\ MoveEffects
    /\ T \notin Range(preL) => newL[Len(newL)] = T
    /\ T \in Range(preL) => Before(newL, T) = Before(preL, T)

C7_Witness ==
  /\ MovedToOtherLane
  /\ last.lane \in DOMAIN last.pre.tasksByStatus
  /\ last.pre.tasksByStatus[last.lane] # <<>>
  /\ last.task \notin Range(last.pre.tasksByStatus[last.lane])

\* moveTask(T, L) ran for an existing task whose status was already L
MovedToSameLane ==
  /\ last.op = "moveTask"
  /\ last.task \in DOMAIN last.pre.tasks
  /\ last.pre.tasks[last.task].status = last.lane

UpdatedExisting == last.op = "updateTask" /\ last.task \in DOMAIN last.pre.tasks

\* C9: updateTask(id, fields) on an existing task merges fields into the
\* record and refreshes updatedAt; tasksByStatus, the lane list and every other
\* record are unchanged, also when fields changes the status.
C9_UpdateTouchesOnlyRecord ==
  UpdatedExisting =>
    LET T == last.task
        old == last.pre.tasks[T] IN
    /\ DOMAIN tasks = DOMAIN last.pre.tasks
    /\ DOMAIN tasks[T] = DOMAIN old
    /\ \A f \in DOMAIN last.upd : tasks[T][f] = last.upd[f]
    /\ \A f \in (DOMAIN old) \ ((DOMAIN last.upd) \cup {"updatedAt"}) : tasks[T][f] = old[f]
    /\ tasks[T].updatedAt = last.t
    /\ \A id \in (DOMAIN tasks) \ {T} : tasks[id] = last.pre.tasks[id]
    /\ tasksByStatus = last.pre.tasksByStatus
    /\ swimLanes = last.pre.swimLanes

C9_Witness ==
  /\ UpdatedExisting
  /\ "status" \in DOMAIN last.upd
  /\ last.upd.status # last.pre.tasks[last.task].status
  /\ Cardinality(DOMAIN tasks) >= 2

\* C10: reorderTasks(L, newSeq) sets tasksByStatus[L] to exactly newSeq, for
\* any newSeq and any L, and leaves the task map and every other lane's
\* sequence unchanged.
C10_ReorderReplaces ==
  last.op = "reorderTasks" =>
    /\ DOMAIN tasksByStatus = (DOMAIN last.pre.tasksByStatus) \cup {last.lane}
    /\ tasksByStatus[last.lane] = last.seq
    /\ \A k \in (DOMAIN tasksByStatus) \ {last.lane} :
         tasksByStatus[k] = last.pre.tasksByStatus[k]
    /\ tasks = last.pre.tasks

\* a replacement with a duplicate that drops nothing, for a non-empty lane
C10_Witness ==
  /\ last.op = "reorderTasks"
  /\ last.lane \in DOMAIN last.pre.tasksByStatus
  /\ last.pre.tasksByStatus[last.lane] # <<>>
  /\ Len(last.seq) >= 2
  /\ last.seq[1] = last.seq[Len(last.seq)]

\* C11: addTask(fields) creates a record under an identifier that was not in
\* the task map (no existing record is changed), with createdAt = updatedAt,
\* appends the identifier as the last element of tasksByStatus[fields.status]
\* (the elements before it and the other lanes unchanged) and returns the
\* created record.
C11_AddTaskCreates ==
  last.op = "addTask" =>
    LET id == last.task
        status == last.upd.status IN
    /\ id \notin DOMAIN last.pre.tasks
    /\ DOMAIN tasks = (DOMAIN last.pre.tasks) \cup {id}
    /\ \A k \in DOMAIN last.pre.tasks : tasks[k] = last.pre.tasks[k]
    /\ tasks[id] = last.ret
    /\ last.ret.id = id
    /\ last.ret.createdAt = last.ret.updatedAt
    /\ \A f \in DOMAIN last.upd : last.ret[f] = last.upd[f]
    /\ DOMAIN tasksByStatus = (DOMAIN last.pre.tasksByStatus) \cup {status}
    /\ tasksByStatus[status] = Append(Get(last.pre.tasksByStatus, status, <<>>), id)
    /\ \A k \in (DOMAIN tasksByStatus) \ {status} :
         tasksByStatus[k] = last.pre.tasksByStatus[k]
    /\ swimLanes = last.pre.swimLanes

\* a second task added to a lane that already lists one
C11_Witness ==
  /\ last.op = "addTask"
  /\ last.pre.tasks # <<>>
  /\ Get(last.pre.tasksByStatus, last.upd.status, <<>>) # <<>>
  /\ last.ret.createdAt > 0

\* deleteTask(id) ran for a task that was in the task map
DeletedExisting == last.op = "deleteTask" /\ last.task \in DOMAIN last.pre.tasks

\* the record of last.task is gone, the sequence of its lane lost exactly its
\* identifier, and nothing else changed
DeleteEffects ==
  LET id == last.task
      status == last.pre.tasks[id].status IN
  /\ DOMAIN tasks = (DOMAIN last.pre.tasks) \ {id}
  /\ \A k \in DOMAIN tasks : tasks[k] = last.pre.tasks[k]
  /\ DOMAIN tasksByStatus = (DOMAIN last.pre.tasksByStatus) \cup {status}
  /\ tasksByStatus[status] = Without(Get(last.pre.tasksByStatus, status, <<>>), id)
  /\ \A k \in (DOMAIN tasksByStatus) \ {status} :
       tasksByStatus[k] = last.pre.tasksByStatus[k]

\* C12 as stated: deleteTask(id) for a task present in the task map removes its
\* record and removes its identifier from the sequence of its lane, the
\* remaining identifiers keeping their relative order.
C12_DeleteTaskRemoves == DeletedExisting => DeleteEffects

\* C12 amended: as stated, for a task present in the task map whose status is
\* not the empty string.
C12_DeleteTaskRemovesNonEmptyStatus ==
  (DeletedExisting /\ last.pre.tasks[last.task].status # "") => DeleteEffects

\* the first of two identifiers of a lane is deleted
C12_Witness ==
  /\ DeletedExisting
  /\ LET status == last.pre.tasks[last.task].status IN
     /\ status # ""
     /\ status \in DOMAIN last.pre.tasksByStatus
     /\ Len(last.pre.tasksByStatus[status]) >= 2
     /\ last.pre.tasksByStatus[status][1] = last.task

\* updateTask, deleteTask or moveTask ran with an identifier not in the task map
OnUnknownTask ==
  /\ last.op \in {"updateTask", "deleteTask", "moveTask"}
  /\ last.task \notin DOMAIN last.pre.tasks

\* C13: updateTask, deleteTask and moveTask called with an identifier that is
\* not in the task map leave the task map, tasksByStatus and the lane list
\* unchanged (the handlers are total: they evaluate for every such identifier).
C13_UnknownTaskNoOp ==
  OnUnknownTask =>
    /\ tasks = last.pre.tasks
    /\ tasksByStatus = last.pre.tasksByStatus
    /\ swimLanes = last.pre.swimLanes

\* moveTask to a lane without the identifier, for an identifier of an earlier
\* deleted task while another task exists
C13_Witness ==
  /\ OnUnknownTask
  /\ last.op = "moveTask"
  /\ last.task >= 1
  /\ last.lane \in DOMAIN last.pre.tasksByStatus
  /\ last.task \notin Range(last.pre.tasksByStatus[last.lane])

\* C14: in every reachable state (the effects of the last mutation have run)
\* the persisted tasks entry is the serialisation of the in-memory pair
\* {tasks, tasksByStatus} and the persisted swim-lanes entry that of the
\* in-memory lane list, also when the task map and the index are both empty.
C14_PersistedMatchesMemory ==
  /\ storage.tasks = stringifyTasks(Cur)
  /\ storage.lanes = stringifySwimLanes(swimLanes)

\* the provider mounted again over the entries as the last mutation left them
ReloadedAsWritten == last.op = "reload" /\ last.read = last.stored

\* C15: rehydrating from the two entries written after the last mutation gives
\* a task map, an index and a lane list equal to the in-memory values at the
\* time of that write (records compared as serialised: a property holding
\* undefined and a missing property are the same).
C15_ReloadRestores ==
  ReloadedAsWritten =>
    /\ stringifyTasks(Cur) = stringifyTasks(last.pre)
    /\ swimLanes = last.pre.swimLanes

\* the store holds what the tasks entry e holds (every lane given an entry)
TasksLoadedFrom(e) ==
  /\ tasks = e.value.tasks
  /\ tasksByStatus =
       EnsureLaneEntries(Store(e.value.tasks, e.value.tasksByStatus, swimLanes)).tasksByStatus

\* the lane list a mount over the entries read gives when the tasks entry is e
LanesMountedWith(e) ==
  Mount([last.read EXCEPT !.tasks = e], last.strict).store.swimLanes

C17_LaneListNeverEmpty == Len(swimLanes) >= 1

\* the lane manager deleted lanes until one was left
C17_Witness ==
  /\ last.op = "handleDeleteLane"
  /\ Len(swimLanes) = 1
  /\ ~isDeleteDialogOpen

\* C18: deleteSwimLane(L) always removes L from the lane list and L's entry
\* from tasksByStatus; when L was the only lane, every task listed in L's
\* sequence is removed from the task map.
C18_DeleteLaneRemoves ==
  last.op = "deleteSwimLane" =>
    /\ last.lane \notin LaneIdSet
    /\ last.lane \notin DOMAIN tasksByStatus
    /\ swimLanes = SelectSeq(last.pre.swimLanes, LAMBDA lane : lane.id # last.lane)
    /\ LaneIds(last.pre.swimLanes) = <<last.lane>> =>
         \A id \in Range(Get(last.pre.tasksByStatus, last.lane, <<>>)) :
           id \notin DOMAIN tasks

\* the only lane, holding a task, is deleted
C18_Witness ==
  /\ last.op = "deleteSwimLane"
  /\ LaneIds(last.pre.swimLanes) = <<last.lane>>
  /\ Range(Get(last.pre.tasksByStatus, last.lane, <<>>)) \cap DOMAIN last.pre.tasks # {}

\* a and b hold the same elements the same number of times
IsPermutation(a, b) ==
  /\ Len(a) = Len(b)
  /\ \A x \in Range(a) \cup Range(b) : Count(a, x) = Count(b, x)

\* C19: reorderSwimLanes(newOrder) replaces the lane list with the lane records
\* of newOrder's identifiers in newOrder's order, skipping identifiers that are
\* not current lanes; when newOrder is a permutation of the current lane
\* identifiers the new list holds exactly the lanes of the old one, each once.
C19_ReorderLanes ==
  last.op = "reorderSwimLanes" =>
    LET old == last.pre.swimLanes
        known == SelectSeq(last.seq, LAMBDA id : id \in Range(LaneIds(old))) IN
    /\ LaneIds(swimLanes) = known
    /\ \A i \in 1..Len(swimLanes) : swimLanes[i] \in Range(old)
    /\ IsPermutation(last.seq, LaneIds(old)) =>
         /\ Len(swimLanes) = Len(old)
         /\ \A i \in 1..Len(old) : Count(swimLanes, old[i]) = 1

\* what holds of reorderSwimLanes while the lane identifiers are distinct
ReorderLanesDistinctIds ==
  (/\ last.op = "reorderSwimLanes"
   /\ Cardinality(Range(LaneIds(last.pre.swimLanes))) = Len(last.pre.swimLanes))
  => C19_ReorderLanes

\* C20: every key k of the task map holds a record whose id is k, and no
\* operation changes the id or the createdAt of a task it leaves in the map.
C20_TaskIdsImmutable ==
  /\ \A k \in DOMAIN tasks : tasks[k].id = k
  /\ \A k \in (DOMAIN tasks) \cap (DOMAIN last.pre.tasks) :
       /\ tasks[k].id = last.pre.tasks[k].id
       /\ tasks[k].createdAt = last.pre.tasks[k].createdAt

\* C21: the lane list never holds two lanes with the same identifier, and
\* updateSwimLane(id, updates) changes only the fields of the matching lane:
\* the identifiers, their number and their order stay as they were.
C21_LaneIdsUnique ==
  /\ Cardinality(LaneIdSet) = Len(swimLanes)
  /\ last.op \in {"updateSwimLane", "handleEditLane"} =>
       /\ LaneIds(swimLanes) = LaneIds(last.pre.swimLanes)
       /\ \A i \in 1..Len(swimLanes) :
            last.pre.swimLanes[i].id # last.lane => swimLanes[i] = last.pre.swimLanes[i]

\* the task form was submitted
FormSubmitted == last.op \in {"formCreate", "formEdit"}

\* the values submitted: title, description and priority of last.upd
SubmittedValid ==
  /\ TextLength(last.upd.title) >= 2
  /\ TextLength(last.upd.description) >= 1
  /\ last.upd.priority \in 1..3

\* C22: the task form calls addTask or updateTask only when the submitted
\* values pass validation (title of at least 2 characters, non-empty
\* description, priority between 1 and 3); a submission that fails leaves the
\* task map, the index and the lane list unchanged.
C22_FormValidates ==
  FormSubmitted =>
    /\ ~SubmittedValid =>
         /\ tasks = last.pre.tasks
         /\ tasksByStatus = last.pre.tasksByStatus
         /\ swimLanes = last.pre.swimLanes
    /\ tasks # last.pre.tasks => SubmittedValid

\* an edit with a title of one character is submitted for an existing task
C22_Witness ==
  /\ last.op = "formEdit"
  /\ last.task \in DOMAIN tasks
  /\ TextLength(last.upd.title) = 1
  /\ last.upd.status # tasks[last.task].status

\* the keys of index b whose sequence lists id
LanesListing(b, id) == {k \in DOMAIN b : id \in Range(b[k])}

\* the last handler was a store mutation (not a mount)
Mutated == last.op \notin {"init", "reload"}

\* C23: every store operation is all-or-nothing: no operation removes a task
\* from the task map while leaving its identifier in the index, and none
\* changes where the index lists a task without changing the task's record.
C23_AllOrNothing ==
  Mutated =>
    /\ \A id \in (DOMAIN last.pre.tasks) \ (DOMAIN tasks) :
         LanesListing(tasksByStatus, id) = {}
    /\ \A id \in (DOMAIN last.pre.tasks) \cap (DOMAIN tasks) :
         LanesListing(tasksByStatus, id) # LanesListing(last.pre.tasksByStatus, id)
           => tasks[id] # last.pre.tasks[id]

\* C24: store operations never race: two operations called one after the
\* other by the same event handler, before a re-render, leave the store that
\* calling them one at a time, each on the state the previous one produced,
\* leaves.
C24_NoRace ==
  last.op = "batch" =>
    /\ tasks = last.oneByOne.tasks
    /\ tasksByStatus = last.oneByOne.tasksByStatus
    /\ swimLanes = last.oneByOne.swimLanes

\* C25: in every state reachable through the UI, every identifier listed in a
\* lane's index sequence is a key of the task map.
C25_IndexedTasksExist ==
  \A status \in DOMAIN tasksByStatus :
    Range(tasksByStatus[status]) \subseteq DOMAIN tasks

\* C26: in every reachable state, once the startup effects have run, the keys
\* of tasksByStatus are exactly the identifiers of the lane list.
C26_IndexKeysAreLanes ==
  DOMAIN tasksByStatus = LaneIdSet

\* the last handler was a board drag of a known task that ended on another
\* known task with the same status
DroppedOnTaskOfSameLane ==
  /\ last.op = "boardDragEnd"
  /\ last.seq # <<0>>
  /\ last.seq[1] # last.task
  /\ {last.task, last.seq[1]} \subseteq DOMAIN last.pre.tasks
  /\ last.pre.tasks[last.task].status = last.pre.tasks[last.seq[1]].status

\* C27: a board drag that ends on another task of the same lane replaces the
\* lane's sequence by a permutation of it in which the dragged identifier is
\* at the index the drop target had and the other identifiers keep their
\* relative order; no task changes and no other sequence changes.
C27_DragReorders ==
  DroppedOnTaskOfSameLane =>
    LET lane == last.pre.tasks[last.task].status
        before == Get(last.pre.tasksByStatus, lane, <<>>)
        after == Get(tasksByStatus, lane, <<>>) IN
    /\ IsPermutation(after, before)
    /\ IndexOf(before, last.seq[1]) # 0
    /\ after[IndexOf(before, last.seq[1])] = last.task
    /\ Without(after, last.task) = Without(before, last.task)
    /\ tasks = last.pre.tasks
    /\ \A l \in (DOMAIN tasksByStatus) \ {lane} :
         tasksByStatus[l] = Get(last.pre.tasksByStatus, l, <<>>)

\* the lane a board drag end targets, as the store before the drag tells it:
\* the column dropped on, or the status of the task dropped on ("" for none)
DropLane ==
  IF last.lane # "" THEN last.lane
  ELSE IF last.seq[1] \in DOMAIN last.pre.tasks
       THEN last.pre.tasks[last.seq[1]].status ELSE ""

\* the last handler was a board drag of a known task that ended on a column
\* or on a task of another lane than the dragged task's
DroppedOnOtherLane ==
  /\ last.op = "boardDragEnd"
  /\ last.task \in DOMAIN last.pre.tasks
  /\ last.seq[1] # last.task
  /\ DropLane # ""
  /\ DropLane # last.pre.tasks[last.task].status

\* C28: a board drag end on a lane column or on a task of a different lane
\* moves the dragged task to that lane, appended at the end of its sequence;
\* a drag end without target, of an unknown task, on the task itself, on its
\* own column or on a target that is neither a lane nor a task leaves the task
\* map and the index unchanged.
C28_DragEndMoves ==
  last.op = "boardDragEnd" =>
    IF DroppedOnOtherLane
    THEN LET old == last.pre.tasks[last.task].status IN
         /\ last.task \in DOMAIN tasks
         /\ tasks[last.task].status = DropLane
         /\ Get(tasksByStatus, DropLane, <<>>)
              = Append(Get(last.pre.tasksByStatus, DropLane, <<>>), last.task)
         /\ last.task \notin Range(Get(tasksByStatus, old, <<>>))
         /\ \A id \in (DOMAIN tasks) \ {last.task} : tasks[id] = last.pre.tasks[id]
    ELSE DroppedOnTaskOfSameLane
           \/ (tasks = last.pre.tasks /\ tasksByStatus = last.pre.tasksByStatus)

\* the last handler deleted a lane while another lane remained
DeletedLaneWithOther ==
  /\ last.op \in {"deleteSwimLane", "handleDeleteLane"}
  /\ HasOtherLane(last.pre.swimLanes, last.lane)

\* C29: deleteSwimLane(L) with another lane remaining leaves every task that
\* is not in L's sequence and every index sequence other than L's and the
\* target's untouched; the target's new sequence is its previous sequence
\* followed by L's sequence, and no identifier occurs twice in it.
C29_DeleteLaneAppends ==
  DeletedLaneWithOther =>
    LET inLane == Get(last.pre.tasksByStatus, last.lane, <<>>)
        target == FirstOtherLane(last.pre.swimLanes, last.lane)
        moved  == Get(tasksByStatus, target, <<>>) IN
    /\ \A id \in (DOMAIN last.pre.tasks) \ Range(inLane) :
         id \in DOMAIN tasks /\ tasks[id] = last.pre.tasks[id]
    /\ \A l \in (DOMAIN last.pre.tasksByStatus) \ {last.lane, target} :
         l \in DOMAIN tasksByStatus /\ tasksByStatus[l] = last.pre.tasksByStatus[l]
    /\ moved = Get(last.pre.tasksByStatus, target, <<>>) \o inLane
    /\ \A id \in Range(moved) : Count(moved, id) = 1

\* the last operation was a moveTask of a known task to another lane, its
\* state updater invoked twice
MovedTwice ==
  /\ last.op = "moveTask"
  /\ last.strict
  /\ last.task \in DOMAIN last.pre.tasks
  /\ last.pre.tasks[last.task].status # last.lane

\* C30: the index updater of moveTask(T, L) applied twice in a row yields the
\* tasksByStatus that applying it once yields, with T exactly once in L's
\* sequence and absent from the old lane's.
C30_MoveIndexIdempotent ==
  MovedTwice =>
    LET old == last.pre.tasks[last.task].status IN
    /\ tasksByStatus = moveTaskIndex(last.pre.tasksByStatus, last.task, old, last.lane)
    /\ Count(tasksByStatus[last.lane], last.task) = 1
    /\ last.task \notin Range(tasksByStatus[old])

\* the updater ran twice on an index that already listed the task in the new
\* lane as well as in the old one
C30_Witness ==
  /\ MovedTwice
  /\ last.task \in Range(Get(last.pre.tasksByStatus, last.lane, <<>>))
  /\ last.task \in Range(Get(last.pre.tasksByStatus, last.pre.tasks[last.task].status, <<>>))

====
